---- MODULE Spec2Model ----
(***************************************************************************)
(* A model of PackFrameworkerScript.py: the file system under SCRIPT_DIR   *)
(* as a map from paths to entries, the shutil / os operations the script   *)
(* calls as operators on that map, and the script's functions as actions.  *)
(*                                                                         *)
(* A path is a sequence of names relative to SCRIPT_DIR; <<>> is           *)
(* SCRIPT_DIR itself.  An entry is a directory or a regular file.  A file  *)
(* holds text: a sequence of lines, a line being a sequence of tokens.     *)
(* The field o of an entry records the tree the bytes were first read      *)
(* from; copying carries it along and nothing in the script reads it.      *)
(***************************************************************************)
EXTENDS Naturals, Sequences, FiniteSets, TLC

VARIABLES
    fs,                \* the file system under SCRIPT_DIR
    pc,                \* where the script's control is
    config,            \* main_menu's config: [mcversion, modloader]
    selected_version,  \* main_menu's selected_version (a line)
    todo,              \* the variants the for loop of main_menu has yet to build
    ops,               \* number of menu choices made so far
    trail              \* what has been observed of the run so far (a record)

vars == <<fs, pc, config, selected_version, todo, ops, trail>>

-----------------------------------------------------------------------------
(* Paths and entries *)

Root == <<>>

DirEntry == [k |-> "dir", c |-> <<>>, o |-> "-"]

FileEntry(c, o) == [k |-> "file", c |-> c, o |-> o]

IsPrefix(p, q) == Len(p) <= Len(q) /\ SubSeq(q, 1, Len(p)) = p

Prefixes(p) == {SubSeq(p, 1, i) : i \in 0..Len(p)}

Basename(p) == p[Len(p)]

Exists(f, p) == p \in DOMAIN f

IsDir(f, p) == p \in DOMAIN f /\ f[p].k = "dir"

IsFile(f, p) == p \in DOMAIN f /\ f[p].k = "file"

\* os.listdir(p): the names of the entries directly under p
ListDir(f, p) ==
    {q[Len(p) + 1] : q \in {r \in DOMAIN f : Len(r) = Len(p) + 1 /\ IsPrefix(p, r)}}

\* shutil.rmtree(p) and os.remove(p): p and everything under it is gone
RmTree(f, p) == [q \in {r \in DOMAIN f : ~IsPrefix(p, r)} |-> f[q]]

\* os.makedirs(p, exist_ok=True): p and its missing ancestors become directories
MakeDirs(f, p) ==
    [q \in DOMAIN f \cup Prefixes(p) |-> IF q \in DOMAIN f THEN f[q] ELSE DirEntry]

\* open(p, "w").write(...) and the write of shutil.copy2: p holds entry e
WriteFile(f, p, e) == [q \in DOMAIN f \cup {p} |-> IF q = p THEN e ELSE f[q]]

\* The tree below `at`, with paths relative to `at`
Sub(f, at) ==
    [q \in {SubSeq(p, Len(at) + 1, Len(p)) : p \in {r \in DOMAIN f : IsPrefix(at, r) /\ r # at}}
        |-> f[at \o q]]

\* f with the relative tree t placed below `at`
Graft(f, at, t) ==
    LET g == MakeDirs(f, at)
    IN  [p \in DOMAIN g \cup {at \o q : q \in DOMAIN t} |->
            IF IsPrefix(at, p) /\ p # at /\ SubSeq(p, Len(at) + 1, Len(p)) \in DOMAIN t
            THEN t[SubSeq(p, Len(at) + 1, Len(p))]
            ELSE g[p]]

\* Every entry's parent is a directory
WellFormed(f) ==
    /\ IsDir(f, Root)
    /\ \A p \in DOMAIN f : p # Root => IsDir(f, SubSeq(p, 1, Len(p) - 1))

-----------------------------------------------------------------------------
(* shutil.copy2, shutil.copytree(dirs_exist_ok=True), copy_directory_contents *)

\* A result of an operation that may raise: the file system it leaves and
\* whether it raised.
Res(f, e) == [fs |-> f, err |-> e]

\* Copy2 with the destination opened for appending instead of truncated
Copy2Appending(f, s, d) ==
    LET t == IF IsDir(f, d) THEN Append(d, Basename(s)) ELSE d
    IN  IF IsDir(f, t) THEN Res(f, TRUE)
        ELSE IF IsFile(f, t)
        THEN Res(WriteFile(f, t, [f[s] EXCEPT !.c = f[t].c \o f[s].c]), FALSE)
        ELSE Res(WriteFile(f, t, f[s]), FALSE)

\* shutil.copy2(s, d): when d is a directory the file goes into it under the
\* source's base name; opening a directory for writing raises.
Copy2(f, s, d) ==
    LET t == IF IsDir(f, d) THEN Append(d, Basename(s)) ELSE d
    IN  IF IsDir(f, t) THEN Res(f, TRUE) ELSE Res(WriteFile(f, t, f[s]), FALSE)

RECURSIVE CopyTree(_, _, _), CopyEntries(_, _, _, _)

\* CopyTree as a mirror: an existing destination directory is replaced.
CopyTreeMirroring(f, s, d) ==
    IF IsFile(f, d) THEN Res(f, TRUE)
    ELSE CopyEntries(MakeDirs(RmTree(f, d), d), s, d, ListDir(f, s))

\* shutil.copytree(s, d, dirs_exist_ok=True): os.makedirs(d, exist_ok=True)
\* raises at once when d is a file; the errors of the entries are collected,
\* every entry is tried, and shutil.Error is raised at the end.
CopyTree(f, s, d) ==
    IF IsFile(f, d) THEN Res(f, TRUE)
    ELSE CopyEntries(MakeDirs(f, d), s, d, ListDir(f, s))

CopyEntries(f, s, d, names) ==
    IF names = {} THEN Res(f, FALSE)
    ELSE LET n  == CHOOSE x \in names : TRUE
             r1 == IF IsDir(f, Append(s, n))
                   THEN CopyTree(f, Append(s, n), Append(d, n))
                   ELSE Copy2(f, Append(s, n), Append(d, n))
             r2 == CopyEntries(r1.fs, s, d, names \ {n})
         IN  Res(r2.fs, r1.err \/ r2.err)

\* One pass of the loop body of copy_directory_contents, for item n
CopyItem(f, src, dest, n) ==
    IF IsDir(f, Append(src, n))
    THEN CopyTree(f, Append(src, n), Append(dest, n))
    ELSE Copy2(f, Append(src, n), Append(dest, n))

RECURSIVE CopyItems(_, _, _, _)

CopyItems(f, src, dest, names) ==
    IF names = {} THEN f
    ELSE LET n == CHOOSE x \in names : TRUE
         IN  CopyItems(CopyItem(f, src, dest, n).fs, src, dest, names \ {n})

\* copy_directory_contents(src, dest): the set of its possible results.
\* os.listdir returns the items in arbitrary order and the first item that
\* raises ends the loop, so when some item raises the result depends on
\* which items came before it.  Items write below dest/<item> only, so the
\* items that raise are the same in any order.
CopyDirectoryContents(f, src, dest) ==
    IF ~Exists(f, src) THEN {Res(f, FALSE)}
    ELSE LET g     == MakeDirs(f, dest)
             items == ListDir(g, src)
             bad   == {n \in items : CopyItem(g, src, dest, n).err}
         IN  IF bad = {}
             THEN {Res(CopyItems(g, src, dest, items), FALSE)}
             ELSE {Res(CopyItem(CopyItems(g, src, dest, before), src, dest, b).fs, TRUE) :
                      <<b, before>> \in {x \in bad \X SUBSET (items \ bad) : TRUE}}

-----------------------------------------------------------------------------
(* Text: str.strip, str.replace, os.path.join on a line of the removal list *)

Whitespace == {" ", "\n"}

RECURSIVE LStrip(_)

LStrip(line) ==
    IF line # <<>> /\ Head(line) \in Whitespace THEN LStrip(Tail(line)) ELSE line

RECURSIVE RStrip(_)

RStrip(line) ==
    IF line # <<>> /\ line[Len(line)] \in Whitespace
    THEN RStrip(SubSeq(line, 1, Len(line) - 1))
    ELSE line

\* str.strip()
Strip(line) == RStrip(LStrip(line))

RECURSIVE ReplaceTokens(_, _, _)

ReplaceTokens(line, old, new) ==
    IF line = <<>> THEN <<>>
    ELSE (IF Head(line) = old THEN new ELSE <<Head(line)>>)
             \o ReplaceTokens(Tail(line), old, new)

\* str.replace(old, new) on the whole text of a file
Replace(content, old, new) ==
    [i \in 1..Len(content) |-> ReplaceTokens(content[i], old, new)]

RECURSIVE ReadAll(_)

\* f.read(): the lines of the file, joined by newlines
ReadAll(content) ==
    IF content = <<>> THEN <<>>
    ELSE IF Len(content) = 1 THEN content[1]
    ELSE content[1] \o <<"\n">> \o ReadAll(Tail(content))

\* f.write(text) of a text without newlines: no line at all when it is empty
TextOf(line) == IF line = <<>> THEN <<>> ELSE <<line>>

\* The components of a relative path written with "/" separators
Components(line) == SelectSeq(line, LAMBDA t : t # "/")

-----------------------------------------------------------------------------
(* The paths the script works on *)

Variants == <<"giga", "nano", "server">>

BetaDir == <<"beta">>

ReleaseDir == <<"release">>

FrameworkPath == <<"framework">>

LAST_VERSION_FILE == <<"beta", "lastVersion.txt">>

OutputPath(cfg, modpacktype) == <<"beta", cfg.modloader, cfg.mcversion, modpacktype>>

\* framework/packwiz/<modloader>/<mcversion>/<modpacktype>
FrameworkTier(cfg, modpacktype) ==
    <<"framework", "packwiz", cfg.modloader, cfg.mcversion, modpacktype>>

\* mod/<modloader>/all/<tier>
ModTier(cfg, tier) == <<"mod", cfg.modloader, "all", tier>>

\* Tiers with the giga tier merged before the nano tier
TiersGigaBeforeNano(cfg, modpacktype) ==
    <<FrameworkTier(cfg, modpacktype), ModTier(cfg, "server")>>
        \o (IF modpacktype = "giga" THEN <<ModTier(cfg, "giga")>> ELSE <<>>)
        \o (IF modpacktype \in {"nano", "giga"} THEN <<ModTier(cfg, "nano")>> ELSE <<>>)

\* Tiers with the nano tier merged for every modpack type
TiersNanoForAll(cfg, modpacktype) ==
    <<FrameworkTier(cfg, modpacktype), ModTier(cfg, "server"), ModTier(cfg, "nano")>>
        \o (IF modpacktype = "giga" THEN <<ModTier(cfg, "giga")>> ELSE <<>>)

\* The source directories build_modpack merges for a modpack type, in order
Tiers(cfg, modpacktype) ==
    <<FrameworkTier(cfg, modpacktype), ModTier(cfg, "server")>>
        \o (IF modpacktype \in {"nano", "giga"} THEN <<ModTier(cfg, "nano")>> ELSE <<>>)
        \o (IF modpacktype = "giga" THEN <<ModTier(cfg, "giga")>> ELSE <<>>)

-----------------------------------------------------------------------------
(* The inputs: what is on disk when the script starts, what git brings,    *)
(* what the user types                                                      *)

\* The relative tree with the given files (a set of <<path, content>>) and
\* directories, all files read from origin o
TreeOf(o, files, dirs) ==
    LET fpaths == {x[1] : x \in files}
        all    == UNION {Prefixes(p) : p \in fpaths \cup dirs} \ {Root}
    IN  [p \in all |->
            IF p \in fpaths
            THEN FileEntry((CHOOSE x \in files : x[1] = p)[2], o)
            ELSE DirEntry]

Plain(tag) == << <<tag>> >>

\* A text holding the version placeholder
Unstamped(tag) == << <<tag>>, <<"version", "noVersion", "noVersion">> >>

\* The removal lists a pack may ship
RemovalLists ==
    { << <<" ", "a", " ">>, <<>>, <<"zz">>, <<"pack.toml">> >>,
      << <<"a", "/", "a">>, <<" ">>, <<"b">> >>,
      << <<"b">>, <<"a">> >>,
      << <<"filesToRemove.txt">>, <<"a">> >> }

\* The trees a tier of mod/<modloader>/all may hold
ModTrees(tier) ==
    { TreeOf(tier, {<< <<"a">>, Plain(tier) >>}, {}),
      TreeOf(tier, {<< <<"a", "a">>, Plain(tier) >>}, {}),
      TreeOf(tier, {<< <<"b">>, Plain(tier) >>}, {<<"a">>}) }

\* What an earlier run may have left in an output directory or in release/
StaleTree ==
    TreeOf("earlier", {<< <<"a", "a">>, Plain("earlier") >>,
                       << <<"old">>, Plain("earlier") >>,
                       << <<"lastVersion.txt">>, Plain("0.9") >>}, {})

\* The revisions of the framework repository: revision r holds the same
\* tree for every Minecraft version and modpack type
McVersions == {"1.20.1", "1.21"}

Modloaders == {"forge"}

FwRevisions == {"r1", "r2"}

FwTree(r) ==
    IF r = "r1"
    THEN TreeOf("framework", {<< <<"pack.toml">>, Unstamped("r1") >>,
                              << <<"b">>, Plain("r1") >>}, {})
    ELSE TreeOf("framework", {<< <<"pack.toml">>, Plain("r2") >>,
                              << <<"config", "bcc-common.toml">>, Unstamped("r2") >>},
                {<<"a">>})

\* f with the tree of S, if any, placed below `at`
Place(f, at, S) == IF S = {} THEN f ELSE Graft(f, at, CHOOSE t \in S : TRUE)

RECURSIVE GraftAll(_, _, _)

\* f with tree t placed below each of the paths in `ats`
GraftAll(f, ats, t) ==
    IF ats = {} THEN f
    ELSE LET at == CHOOSE x \in ats : TRUE
         IN  GraftAll(Graft(f, at, t), ats \ {at}, t)

\* The checkout of revision r placed at framework/
Checkout(f, r) ==
    GraftAll(MakeDirs(RmTree(f, FrameworkPath), FrameworkPath),
             {FrameworkTier([mcversion |-> mc, modloader |-> ml], Variants[i]) :
                  mc \in McVersions, ml \in Modloaders, i \in 1..3},
             FwTree(r))

\* What the user may type at the version prompt
VersionInputs == { <<>>, <<" ", "1.0", " ">> }

EmptyDisk == [p \in {Root} |-> DirEntry]

\* The relative tree of an empty directory
EmptyTree == [p \in {} |-> DirEntry]

\* What a subprocess.run(..., check=True) can do: return, raise
\* CalledProcessError (non-zero exit status), or raise OSError (the
\* program cannot be started, e.g. FileNotFoundError when it is not in PATH)
Outcomes == {"ok", "CalledProcessError", "OSError"}

-----------------------------------------------------------------------------
(* The script *)

MaxOps == 3

NoTrail ==
    [ raisedIn   |-> "",      \* the function an uncaught exception came out of
      gitOps     |-> <<>>,    \* the git commands the last update_pack_framework ran
      before     |-> <<>>,    \* the output tree as the current build found it
      rmList     |-> {},      \* the removal list the current build read, if any
      rmGone     |-> {},      \* its entries that were deleted: [i, k] (k: "file", "dir")
      rmFailedAt |-> 0,       \* the entry of it whose deletion failed (0: none)
      built      |-> <<>>,    \* the modpack types built by the current Build action
      promoted   |-> FALSE,   \* copy_beta_to_release has returned at least once
      last       |-> "",      \* the menu action that returned last
      msgs       |-> {} ]     \* the error messages the last step printed

\* The disk with the given trees (each a set holding one tree, or empty when
\* the directory is absent) as the three tiers of mod/, the removal list (if
\* any) in the server tier, and the framework checked out at the revision
Disk(cfg, srv, nano, giga, list, rev) ==
    LET g == Place(Place(Place(EmptyDisk, ModTier(cfg, "server"), srv),
                         ModTier(cfg, "nano"), nano),
                   ModTier(cfg, "giga"), giga)
        h == IF list = {} THEN g
             ELSE WriteFile(MakeDirs(g, ModTier(cfg, "server")),
                            Append(ModTier(cfg, "server"), "filesToRemove.txt"),
                            FileEntry(CHOOSE l \in list : TRUE, "server"))
    IN  IF rev = {} THEN h ELSE Checkout(h, CHOOSE r \in rev : TRUE)

Opt(S) == {{}} \cup {{x} : x \in S}

DefaultConfig == [mcversion |-> "1.20.1", modloader |-> "forge"]

\* The script starts at the menu, on a disk an earlier run may have left a
\* release tree on
Init ==
    /\ \E srv \in Opt({TreeOf("server", {<< <<"a">>, Plain("server") >>}, {})}),
          nano \in Opt({TreeOf("nano", {<< <<"a", "a">>, Plain("nano") >>}, {})}),
          giga \in Opt({TreeOf("giga", {<< <<"a">>, Plain("giga") >>}, {})}),
          rev \in Opt({"r1"}),
          beta \in Opt({EmptyTree}),
          rel \in Opt({StaleTree}) :
            fs = Place(Place(Disk(DefaultConfig, srv, nano, giga, {}, rev), BetaDir, beta),
                       ReleaseDir, rel)
    /\ config = DefaultConfig
    /\ pc = "menu"
    /\ selected_version = <<>>
    /\ todo = <<>>
    /\ ops = 0
    /\ trail = NoTrail

\* An uncaught exception ends the process
Crash(f, where) ==
    /\ fs' = f
    /\ pc' = "crashed"
    /\ trail' = [trail EXCEPT !.raisedIn = where, !.msgs = {}]

\* Menu choice 1, first part: select_new_mp_version() with the user's input
select_new_mp_version(input) ==
    /\ pc = "menu"
    /\ ops < MaxOps
    /\ LET f1           == MakeDirs(fs, BetaDir)
           last_version == IF IsFile(f1, LAST_VERSION_FILE)
                           THEN Strip(ReadAll(f1[LAST_VERSION_FILE].c))
                           ELSE <<>>
           new_version  == IF Strip(input) = <<>> THEN last_version ELSE Strip(input)
       IN  /\ fs' = WriteFile(f1, LAST_VERSION_FILE, FileEntry(TextOf(new_version), "script"))
           /\ selected_version' = new_version
    /\ pc' = "sync"
    /\ ops' = ops + 1
    /\ trail' = [trail EXCEPT !.built = <<>>, !.gitOps = <<>>, !.msgs = {}]
    /\ UNCHANGED <<config, todo>>

\* update_pack_framework(): the git command has outcome o; when it succeeds
\* the checkout is at revision r
update_pack_framework(o, r) ==
    /\ pc = "sync"
    /\ LET op == IF Exists(fs, FrameworkPath) THEN "pull" ELSE "clone"
       IN  IF o = "OSError"
           THEN /\ fs' = fs
                /\ pc' = "crashed"
                /\ trail' = [trail EXCEPT !.raisedIn = "update_pack_framework",
                                          !.gitOps = <<op>>, !.msgs = {}]
                /\ todo' = todo
           ELSE /\ fs' = IF o = "ok" THEN Checkout(fs, r) ELSE fs
                /\ pc' = "clean"
                /\ trail' = [trail EXCEPT !.gitOps = <<op>>,
                                          !.msgs = IF o = "ok" THEN {} ELSE {"git " \o op}]
                /\ todo' = Variants
    /\ UNCHANGED <<config, selected_version, ops>>

\* BuildClean without the shutil.rmtree of line 203
BuildCleanKeeping ==
    /\ pc = "clean"
    /\ LET output_path == OutputPath(config, Head(todo))
       IN  /\ fs' = MakeDirs(fs, output_path)
           /\ trail' = [trail EXCEPT !.before = Sub(fs, output_path), !.rmList = {},
                                     !.rmGone = {}, !.rmFailedAt = 0, !.msgs = {}]
    /\ pc' = "merge"
    /\ UNCHANGED <<config, selected_version, todo, ops>>

\* build_modpack, lines 196-204: the output directory is removed and made anew
BuildClean ==
    /\ pc = "clean"
    /\ LET output_path == OutputPath(config, Head(todo))
       IN  /\ fs' = MakeDirs(RmTree(fs, output_path), output_path)
           /\ trail' = [trail EXCEPT !.before = Sub(fs, output_path), !.rmList = {},
                                     !.rmGone = {}, !.rmFailedAt = 0, !.msgs = {}]
    /\ pc' = "merge"
    /\ UNCHANGED <<config, selected_version, todo, ops>>

RECURSIVE MergeTiers(_, _, _)

\* The copy_directory_contents calls of build_modpack, one after another;
\* the first that raises ends them
MergeTiers(f, srcs, dest) ==
    IF srcs = <<>> THEN {Res(f, FALSE)}
    ELSE UNION { IF r.err THEN {r} ELSE MergeTiers(r.fs, Tail(srcs), dest) :
                     r \in CopyDirectoryContents(f, Head(srcs), dest) }

\* build_modpack, lines 206-221
BuildMerge ==
    /\ pc = "merge"
    /\ \E r \in MergeTiers(fs, Tiers(config, Head(todo)), OutputPath(config, Head(todo))) :
          IF r.err
          THEN Crash(r.fs, "copy_directory_contents")
          ELSE /\ fs' = r.fs
               /\ pc' = "remove"
               /\ trail' = [trail EXCEPT !.msgs = {}]
    /\ UNCHANGED <<config, selected_version, todo, ops>>

RECURSIVE RemoveFrom(_, _, _, _, _, _), RemoveFromFilesOnly(_, _, _, _, _, _)

\* RemoveFrom without the branch of lines 236-237: directories are left alone
RemoveFromFilesOnly(f, output_path, lines, i, failAt, gone) ==
    LET list == Append(output_path, "filesToRemove.txt")
    IN  IF i > Len(lines)
        THEN IF ~Exists(f, list)
             THEN [fs |-> f, gone |-> gone, failed |-> 0, err |-> TRUE]
             ELSE IF failAt = i
             THEN [fs |-> f, gone |-> gone, failed |-> i, err |-> TRUE]
             ELSE [fs |-> RmTree(f, list), gone |-> gone, failed |-> 0, err |-> FALSE]
        ELSE LET file_relative == Strip(lines[i])
                 target_path   == output_path \o Components(file_relative)
             IN  IF file_relative # <<>> /\ IsFile(f, target_path)
                 THEN IF failAt = i
                      THEN [fs |-> f, gone |-> gone, failed |-> i, err |-> TRUE]
                      ELSE RemoveFromFilesOnly(RmTree(f, target_path), output_path, lines,
                                               i + 1, failAt,
                                               gone \cup {[i |-> i, k |-> f[target_path].k]})
                 ELSE RemoveFromFilesOnly(f, output_path, lines, i + 1, failAt, gone)

\* The loop of lines 230-237 from entry i on, then line 238.  The deletion
\* done for entry failAt raises (the operating system refuses it) and leaves
\* its target as it was; failAt = Len(lines) + 1 is the deletion of the list
\* itself.  The result: the file system, the entries deleted, the entry
\* whose deletion failed, and whether an exception reached line 239.
RemoveFrom(f, output_path, lines, i, failAt, gone) ==
    LET list == Append(output_path, "filesToRemove.txt")
    IN  IF i > Len(lines)
        THEN IF ~Exists(f, list)
             THEN [fs |-> f, gone |-> gone, failed |-> 0, err |-> TRUE]
             ELSE IF failAt = i
             THEN [fs |-> f, gone |-> gone, failed |-> i, err |-> TRUE]
             ELSE [fs |-> RmTree(f, list), gone |-> gone, failed |-> 0, err |-> FALSE]
        ELSE LET file_relative == Strip(lines[i])
                 target_path   == output_path \o Components(file_relative)
             IN  IF file_relative # <<>> /\ Exists(f, target_path)
                 THEN IF failAt = i
                      THEN [fs |-> f, gone |-> gone, failed |-> i, err |-> TRUE]
                      ELSE RemoveFrom(RmTree(f, target_path), output_path, lines, i + 1, failAt,
                                      gone \cup {[i |-> i, k |-> f[target_path].k]})
                 ELSE RemoveFrom(f, output_path, lines, i + 1, failAt, gone)

\* build_modpack, lines 223-240
BuildRemove ==
    /\ pc = "remove"
    /\ LET output_path == OutputPath(config, Head(todo))
           list        == Append(output_path, "filesToRemove.txt")
       IN  IF IsFile(fs, list)
           THEN \E failAt \in 0..(Len(fs[list].c) + 1) :
                   LET r == RemoveFrom(fs, output_path, fs[list].c, 1, failAt, {})
                   IN  /\ fs' = r.fs
                       /\ trail' = [trail EXCEPT !.rmList = {fs[list].c},
                                                 !.rmGone = r.gone,
                                                 !.rmFailedAt = r.failed,
                                                 !.before = <<>>,
                                                 !.msgs = IF r.err THEN {"Error removing files"}
                                                          ELSE {}]
           ELSE /\ fs' = fs
                /\ trail' = [trail EXCEPT !.before = <<>>, !.msgs = {}]
    /\ pc' = "stamp"
    /\ UNCHANGED <<config, selected_version, todo, ops>>

\* replace_in_file(file_path, old_text, new_text); reading a directory
\* raises and the handler of line 180 prints and returns
replace_in_file(f, file_path, old_text, new_text) ==
    IF IsFile(f, file_path)
    THEN WriteFile(f, file_path, [f[file_path] EXCEPT !.c = Replace(@, old_text, new_text)])
    ELSE f

\* build_modpack, lines 242-250
BuildStamp ==
    /\ pc = "stamp"
    /\ LET output_path == OutputPath(config, Head(todo))
           f1 == replace_in_file(fs, Append(output_path, "pack.toml"),
                                 "noVersion", selected_version)
           f2 == replace_in_file(f1, output_path \o <<"config", "bcc-common.toml">>,
                                 "noVersion", selected_version)
           f3 == IF Head(todo) \in {"nano", "giga"}
                 THEN replace_in_file(f2, output_path \o <<"config", "fancymenu",
                                          "custom_locals", "mod", "en_us.local">>,
                                      "noVersion", selected_version)
                 ELSE f2
       IN  fs' = f3
    /\ pc' = "refresh"
    /\ UNCHANGED <<config, selected_version, todo, ops, trail>>

\* build_modpack, lines 252-259, and the for loop of main_menu: packwiz has
\* outcome o
BuildRefresh(o) ==
    /\ pc = "refresh"
    /\ IF o = "OSError"
       THEN /\ Crash(fs, "build_modpack")
            /\ todo' = todo
       ELSE /\ fs' = fs
            /\ todo' = Tail(todo)
            /\ pc' = IF Tail(todo) = <<>> THEN "menu" ELSE "clean"
            /\ trail' = [trail EXCEPT !.built = Append(@, Head(todo)),
                                      !.rmList = {}, !.rmGone = {}, !.rmFailedAt = 0,
                                      !.last = IF Tail(todo) = <<>> THEN "build" ELSE @,
                                      !.msgs = IF o = "ok" THEN {}
                                               ELSE {"Error refreshing modpack with packwiz."}]
    /\ UNCHANGED <<config, selected_version, ops>>

\* copy_beta_to_release without the shutil.rmtree of line 272
copy_beta_to_release_keeping ==
    /\ pc = "menu"
    /\ ops < MaxOps
    /\ ops' = ops + 1
    /\ LET release_dir == ReleaseDir
           f1 == MakeDirs(fs, release_dir)
           last_version_release == Append(release_dir, "lastVersion.txt")
       IN  IF ~Exists(f1, BetaDir)
           THEN Crash(f1, "copy_beta_to_release")
           ELSE \E r \in CopyDirectoryContents(f1, BetaDir, release_dir) :
                   IF r.err
                   THEN Crash(r.fs, "copy_beta_to_release")
                   ELSE /\ fs' = IF Exists(r.fs, last_version_release)
                                 THEN RmTree(r.fs, last_version_release)
                                 ELSE r.fs
                        /\ pc' = "menu"
                        /\ trail' = [trail EXCEPT !.promoted = TRUE, !.last = "promote",
                                                  !.msgs = {}]
    /\ UNCHANGED <<config, selected_version, todo>>

\* Menu choice 2: copy_beta_to_release()
copy_beta_to_release ==
    /\ pc = "menu"
    /\ ops < MaxOps
    /\ ops' = ops + 1
    /\ LET release_dir == ReleaseDir
           f1 == MakeDirs(RmTree(fs, release_dir), release_dir)
           last_version_release == Append(release_dir, "lastVersion.txt")
       IN  IF ~Exists(f1, BetaDir)
           THEN Crash(f1, "copy_beta_to_release")
           ELSE \E r \in CopyDirectoryContents(f1, BetaDir, release_dir) :
                   IF r.err
                   THEN Crash(r.fs, "copy_beta_to_release")
                   ELSE /\ fs' = IF Exists(r.fs, last_version_release)
                                 THEN RmTree(r.fs, last_version_release)
                                 ELSE r.fs
                        /\ pc' = "menu"
                        /\ trail' = [trail EXCEPT !.promoted = TRUE, !.last = "promote",
                                                  !.msgs = {}]
    /\ UNCHANGED <<config, selected_version, todo>>

\* Menu choice 3: change_settings() with the user's two inputs, then the reload
change_settings(new_mcversion, new_modloader) ==
    /\ pc = "menu"
    /\ ops < MaxOps
    /\ ops' = ops + 1
    /\ config' = [mcversion |-> IF new_mcversion # "" THEN new_mcversion ELSE config.mcversion,
                  modloader |-> IF new_modloader # "" THEN new_modloader ELSE config.modloader]
    /\ trail' = [trail EXCEPT !.last = "settings", !.msgs = {}]
    /\ UNCHANGED <<fs, pc, selected_version, todo>>

\* Menu choice 0: sys.exit(0)
MenuExit ==
    /\ pc = "menu"
    /\ pc' = "exited"
    /\ UNCHANGED <<fs, config, selected_version, todo, ops, trail>>

Next ==
    \/ \E input \in VersionInputs : select_new_mp_version(input)
    \/ \E o \in Outcomes, r \in FwRevisions : update_pack_framework(o, r)
    \/ BuildClean
    \/ BuildMerge
    \/ BuildRemove
    \/ BuildStamp
    \/ \E o \in Outcomes : BuildRefresh(o)
    \/ copy_beta_to_release
    \/ \E mc \in McVersions \cup {""}, ml \in Modloaders \cup {""} : change_settings(mc, ml)
    \/ MenuExit

Spec == Init /\ [][Next]_vars

-----------------------------------------------------------------------------
(* build_modpack on its own: one call, its arguments and the disk drawn     *)
(* from bounded sets                                                        *)

InitBuild ==
    /\ \E srv \in Opt(ModTrees("server")), nano \in Opt(ModTrees("nano")),
          giga \in Opt(ModTrees("giga")), rev \in Opt(FwRevisions),
          list \in Opt(RemovalLists), stale \in Opt({StaleTree}), i \in 1..3 :
            /\ fs = Place(MakeDirs(Disk(DefaultConfig, srv, nano, giga, list, rev), BetaDir),
                          OutputPath(DefaultConfig, Variants[i]), stale)
            /\ todo = <<Variants[i]>>
    /\ config = DefaultConfig
    /\ pc = "clean"
    /\ selected_version = <<"1.0">>
    /\ ops = 0
    /\ trail = NoTrail

NextBuild ==
    \/ BuildClean
    \/ BuildMerge
    \/ BuildRemove
    \/ BuildStamp
    \/ \E o \in Outcomes : BuildRefresh(o)

SpecBuild == InitBuild /\ [][NextBuild]_vars

-----------------------------------------------------------------------------
(* copy_directory_contents on its own: src/ and dst/ drawn from the trees   *)
(* of a bounded number of entries, the call made MaxCalls times             *)

MaxSrcNodes == 3

MaxDstNodes == 3

MaxCalls == 2

Names == {"a", "b"}

SrcDir == <<"src">>

DstDir == <<"dst">>

RECURSIVE TreesUpTo(_, _)

\* The relative trees of at most n entries, their files read from origin o
TreesUpTo(n, o) ==
    IF n = 0 THEN {EmptyTree}
    ELSE LET T == TreesUpTo(n - 1, o)
         IN  T \cup UNION {
                 { [q \in DOMAIN t \cup {p} |-> IF q = p THEN e ELSE t[q]] :
                       p \in {Append(d, n2) : d \in {Root} \cup {x \in DOMAIN t : t[x].k = "dir"},
                                              n2 \in Names} \ DOMAIN t,
                       e \in {DirEntry, FileEntry(Plain(o), o)} } : t \in T }

InitMerge ==
    /\ \E S \in Opt(TreesUpTo(MaxSrcNodes, "src")), D \in Opt(TreesUpTo(MaxDstNodes, "dst")) :
          fs = Place(Place(EmptyDisk, SrcDir, S), DstDir, D)
    /\ config = DefaultConfig
    /\ pc = "call"
    /\ selected_version = <<>>
    /\ todo = <<>>
    /\ ops = 0
    /\ trail = NoTrail

\* copy_directory_contents(src, dst) is called; an exception ends the run
copy_directory_contents ==
    /\ pc = "call"
    /\ ops < MaxCalls
    /\ \E r \in CopyDirectoryContents(fs, SrcDir, DstDir) :
          /\ fs' = r.fs
          /\ pc' = IF r.err THEN "crashed" ELSE "call"
          /\ trail' = [trail EXCEPT !.before = fs,
                                    !.raisedIn = IF r.err THEN "copy_directory_contents" ELSE ""]
    /\ ops' = ops + 1
    /\ UNCHANGED <<config, selected_version, todo>>

SpecMerge == InitMerge /\ [][copy_directory_contents]_vars

-----------------------------------------------------------------------------
(* Properties of copy_directory_contents, under SpecMerge.  There            *)
(* trail.before is the whole file system as the last call found it.          *)

\* The relative paths at which tree s of f holds a file and tree d a
\* directory
FileOverDir(f, s, d) ==
    {q \in DOMAIN Sub(f, s) : IsFile(f, s \o q) /\ IsDir(f, d \o q)}

\* The relative paths at which one of the trees s and d of f holds a file
\* and the other a directory
Collisions(f, s, d) ==
    {q \in DOMAIN Sub(f, s) \cap DOMAIN Sub(f, d) : f[s \o q].k # f[d \o q].k}

\* The entries of dst, and dst itself, that src has nothing at
DestOnly(f) ==
    {p \in DOMAIN f : IsPrefix(DstDir, p) /\
                      (p = DstDir \/ ~Exists(f, SrcDir \o SubSeq(p, Len(DstDir) + 1, Len(p))))}

\* C9 as stated: after a call every entry dest had at a path source has
\* nothing at is still there and unchanged, and a call with a missing source
\* changes nothing.
C9_OverlayNotMirror ==
    ops >= 1 =>
        /\ \A p \in DestOnly(trail.before) : Exists(fs, p) /\ fs[p] = trail.before[p]
        /\ ~Exists(trail.before, SrcDir) => fs = trail.before

\* C9 amended: the same, except for the file <q>/<name of q> of dest where
\* source holds a file at q and dest a directory: the source file is copied
\* into that directory under its own name.
C9_OverlayExceptFileIntoDir ==
    ops >= 1 =>
        /\ \A p \in DestOnly(trail.before) :
              \/ Exists(fs, p) /\ fs[p] = trail.before[p]
              \/ \E q \in FileOverDir(trail.before, SrcDir, DstDir) :
                    /\ p = DstDir \o q \o <<Basename(q)>>
                    /\ IsFile(trail.before, p)
                    /\ fs[p] = trail.before[SrcDir \o q]
        /\ ~Exists(trail.before, SrcDir) => fs = trail.before

\* A call has copied something and has kept an entry of dest, two levels
\* down, that source does not have
C9_Witness ==
    /\ ops = 1
    /\ pc = "call"
    /\ fs # trail.before
    /\ \E p \in DestOnly(trail.before) : Len(p) >= 3 /\ fs[p] = trail.before[p]
    /\ \E q \in DOMAIN Sub(fs, SrcDir) : Len(q) >= 2 /\ IsFile(fs, SrcDir \o q)

\* C10: when no path is a file in one of source and dest and a directory in
\* the other, a second call in a row leaves dest, and everything else, as
\* the first call left it.
C10_Idempotent ==
    (ops >= 2 /\ Collisions(trail.before, SrcDir, DstDir) = {}) => fs = trail.before

\* A second call has been made on trees of which the first call overwrote a
\* file of dest and created another
C10_Witness ==
    /\ ops = 2
    /\ Collisions(fs, SrcDir, DstDir) = {}
    /\ \E q \in DOMAIN Sub(fs, SrcDir) : Len(q) >= 2 /\ IsFile(fs, SrcDir \o q)
    /\ \E p \in DestOnly(fs) : IsFile(fs, p)

-----------------------------------------------------------------------------
(* Properties of build_modpack, under SpecBuild and Spec.  While a build is  *)
(* under way Head(todo) is its modpack type.                                 *)

OutNow == OutputPath(config, Head(todo))

TiersNow == Tiers(config, Head(todo))

\* Some path is a file in one of the tiers and a directory in another
TierCollisions(f, tiers) ==
    \E i, j \in 1..Len(tiers) : i < j /\ Collisions(f, tiers[i], tiers[j]) # {}

\* The last of the tiers that holds a file at relative path q
LatestWith(f, tiers, q) ==
    tiers[CHOOSE i \in 1..Len(tiers) :
             /\ IsFile(f, tiers[i] \o q)
             /\ \A j \in (i + 1)..Len(tiers) : ~IsFile(f, tiers[j] \o q)]

\* Every file of one of the tiers is in the output, with the content of the
\* last tier that holds a file at its path
OverlayOf(f, out, tiers) ==
    \A i \in 1..Len(tiers) : \A q \in DOMAIN Sub(f, tiers[i]) :
        IsFile(f, tiers[i] \o q) =>
            /\ IsFile(f, out \o q)
            /\ f[out \o q] = f[LatestWith(f, tiers, q) \o q]

\* The four tiers of a giga build in the order the claim gives
GigaOrder ==
    << <<"framework", "packwiz", config.modloader, config.mcversion, "giga">>,
       <<"mod", config.modloader, "all", "server">>,
       <<"mod", config.modloader, "all", "nano">>,
       <<"mod", config.modloader, "all", "giga">> >>

\* C1 as stated: when the merges of a giga build are done, the output holds
\* every file of the four tiers, each with the content of the last tier
\* (framework, server, nano, giga) that has it.
C1_GigaOverlay ==
    (pc = "remove" /\ Head(todo) = "giga") => OverlayOf(fs, OutNow, GigaOrder)

\* C1 amended: the same, provided no path is a file in one of the four tiers
\* and a directory in another.
C1_GigaOverlayNoCollision ==
    (pc = "remove" /\ Head(todo) = "giga" /\ ~TierCollisions(fs, GigaOrder)) =>
        OverlayOf(fs, OutNow, GigaOrder)

\* The merges of a giga build are done; the nano and the giga tier both hold
\* a file at the same path, as do the framework and the server tier
C1_Witness ==
    /\ pc = "remove"
    /\ Head(todo) = "giga"
    /\ ~TierCollisions(fs, GigaOrder)
    /\ \E q \in DOMAIN Sub(fs, GigaOrder[4]) :
          IsFile(fs, GigaOrder[4] \o q) /\ IsFile(fs, GigaOrder[3] \o q)
    /\ \E q \in DOMAIN Sub(fs, GigaOrder[2]) :
          IsFile(fs, GigaOrder[2] \o q) /\ IsFile(fs, GigaOrder[1] \o q)

\* Entry e after the version stamp
Stamped(e) == [e EXCEPT !.c = Replace(@, "noVersion", selected_version)]

\* Every file of the output is a file of one of the tiers, as it is there or
\* version-stamped
FromTiers(f, out, tiers) ==
    \A p \in DOMAIN f : (IsPrefix(out, p) /\ IsFile(f, p)) =>
        \E i \in 1..Len(tiers) : \E q \in DOMAIN Sub(f, tiers[i]) :
            /\ IsFile(f, tiers[i] \o q)
            /\ f[p] \in {f[tiers[i] \o q], Stamped(f[tiers[i] \o q])}

\* The tiers the claim gives for a server and for a nano build
ClaimedTiers(modpacktype) ==
    << <<"framework", "packwiz", config.modloader, config.mcversion, modpacktype>>,
       <<"mod", config.modloader, "all", "server">> >>
        \o (IF modpacktype = "nano" THEN << <<"mod", config.modloader, "all", "nano">> >>
            ELSE <<>>)

\* The relative paths that exist in the nano or the giga tier and in none
\* of the tiers
OnlyInLaterTiers(f, cfg, tiers) ==
    {q \in DOMAIN Sub(f, ModTier(cfg, "nano")) \cup DOMAIN Sub(f, ModTier(cfg, "giga")) :
        \A i \in 1..Len(tiers) : ~Exists(f, tiers[i] \o q)}

AfterMerges == {"remove", "stamp", "refresh"}

\* C2 as stated: from the merges of a server or nano build on, every file of
\* the output comes from a tier merged for that type (framework and server;
\* for nano also nano), and no path that exists only in a tier not merged
\* for it is in the output.
C2_OnlyMergedTiers ==
    (pc \in AfterMerges /\ Head(todo) \in {"server", "nano"}) =>
        /\ FromTiers(fs, OutNow, ClaimedTiers(Head(todo)))
        /\ \A q \in OnlyInLaterTiers(fs, config, ClaimedTiers(Head(todo))) :
              ~Exists(fs, OutNow \o q)

\* C2 amended: every file of the output comes from a merged tier; and,
\* provided no path is a file in one merged tier and a directory in another,
\* no path that exists only in a tier not merged is in the output.
C2_OnlyMergedTiersNoCollision ==
    (pc \in AfterMerges /\ Head(todo) \in {"server", "nano"}) =>
        /\ FromTiers(fs, OutNow, ClaimedTiers(Head(todo)))
        /\ ~TierCollisions(fs, ClaimedTiers(Head(todo))) =>
              \A q \in OnlyInLaterTiers(fs, config, ClaimedTiers(Head(todo))) :
                  ~Exists(fs, OutNow \o q)

\* A server build is past its merges, its output holds files of both its
\* tiers, and the nano tier holds a file at a path the two tiers do not have
C2_Witness ==
    /\ pc = "refresh"
    /\ Head(todo) = "server"
    /\ ~TierCollisions(fs, ClaimedTiers("server"))
    /\ \E q \in OnlyInLaterTiers(fs, config, ClaimedTiers("server")) :
          IsFile(fs, ModTier(config, "nano") \o q)
    /\ \E p, r \in DOMAIN fs :
          /\ IsPrefix(OutNow, p) /\ IsFile(fs, p) /\ fs[p].o = "server"
          /\ IsPrefix(OutNow, r) /\ IsFile(fs, r) /\ fs[r].o = "framework"

\* Entry e is a file of one of the tiers
Supplied(f, tiers, e) ==
    \E i \in 1..Len(tiers) : \E q \in DOMAIN Sub(f, tiers[i]) : f[tiers[i] \o q] = e

\* The files the build found in its output directory that no tier merged
\* for it holds
Leftovers(f, tiers, before) ==
    {p \in DOMAIN before : before[p].k = "file" /\ ~Supplied(f, tiers, before[p])}

\* C3: a build merges into an empty output directory, and when its merges
\* are done no file that it found in the output directory and that no
\* merged tier holds is in the output.
C3_StartsFromEmpty ==
    /\ pc = "merge" => (IsDir(fs, OutNow) /\ ListDir(fs, OutNow) = {})
    /\ pc = "remove" =>
          \A p \in Leftovers(fs, TiersNow, trail.before) :
              \A r \in DOMAIN fs : IsPrefix(OutNow, r) => fs[r] # trail.before[p]

\* The merges of a build are done, they have put files into the output, and
\* the build had found there a file that no merged tier holds
C3_Witness ==
    /\ pc = "remove"
    /\ Leftovers(fs, TiersNow, trail.before) # {}
    /\ \E r \in DOMAIN fs : IsPrefix(OutNow, r) /\ IsFile(fs, r)

\* The removal list of the current build, its i-th entry stripped, and the
\* path that names
RmLines == CHOOSE l \in trail.rmList : TRUE

RmTarget(i) == OutNow \o Components(Strip(RmLines[i]))

RmListFile == Append(OutNow, "filesToRemove.txt")

\* C4: when a build has processed a removal list and no deletion was
\* refused, nothing is left at any path a non-empty entry names, the list
\* itself is gone, and no error was reported unless an entry names the list.
C4_RemovalList ==
    (pc \in {"stamp", "refresh"} /\ trail.rmList # {} /\ trail.rmFailedAt = 0) =>
        /\ \A i \in 1..Len(RmLines) : Strip(RmLines[i]) # <<>> => ~Exists(fs, RmTarget(i))
        /\ ~Exists(fs, RmListFile)
        /\ (pc = "stamp" /\ \A i \in 1..Len(RmLines) : RmTarget(i) # RmListFile)
              => trail.msgs = {}

\* A build has processed a list with a blank entry and an entry naming
\* nothing, and after that entry it deleted a file; it also deleted the
\* directory that an entry written with blanks around it names
C4_Witness ==
    /\ pc = "refresh"
    /\ trail.rmList # {}
    /\ trail.rmFailedAt = 0
    /\ \E g \in trail.rmGone : g.k = "dir" /\ Strip(RmLines[g.i]) # RmLines[g.i]
    /\ \E i, j \in 1..Len(RmLines) :
          /\ i < j
          /\ Strip(RmLines[i]) # <<>>
          /\ \A g \in trail.rmGone : g.i # i
          /\ [i |-> j, k |-> "file"] \in trail.rmGone
    /\ \E i \in 1..Len(RmLines) : Strip(RmLines[i]) = <<>>

\* C5 as stated: when the deletion for an entry of the list is refused, the
\* error is reported, every later entry is still processed (nothing is left
\* at the path it names, unless that path is within the one that was
\* refused, or holds it), and the build goes on to the stamping.
C5_RemainingEntriesAttempted ==
    (pc = "stamp" /\ trail.rmList # {} /\ trail.rmFailedAt \in 1..Len(RmLines)) =>
        /\ trail.msgs # {}
        /\ \A j \in (trail.rmFailedAt + 1)..Len(RmLines) :
              \/ Strip(RmLines[j]) = <<>>
              \/ ~Exists(fs, RmTarget(j))
              \/ IsPrefix(RmTarget(trail.rmFailedAt), RmTarget(j))
              \/ IsPrefix(RmTarget(j), RmTarget(trail.rmFailedAt))

-----------------------------------------------------------------------------
(* Properties of the menu actions, under Spec *)

\* C6 as stated: update_pack_framework runs one git command, pull when
\* framework/ exists and clone when not, and never raises to main_menu.
C6_SyncNeverRaises ==
    /\ trail.raisedIn # "update_pack_framework"
    /\ pc \in {"clean", "merge", "remove", "stamp", "refresh"} =>
          trail.gitOps \in {<<"pull">>, <<"clone">>}

\* C7 as stated: a failure of packwiz never ends the run, and when the Build
\* action is back at the menu it has built giga, nano and server, in that
\* order.
C7_BuildAlwaysCompletes ==
    /\ trail.raisedIn # "build_modpack"
    /\ (pc = "menu" /\ trail.last = "build") => trail.built = Variants
    /\ pc \in {"clean", "merge", "remove", "stamp", "refresh"} =>
          trail.built \o todo = Variants

\* C8: when copy_beta_to_release has returned, release/ holds what beta/
\* holds, less beta's top-level lastVersion.txt; once it has returned,
\* release/lastVersion.txt never exists; and it raises only when there is
\* no beta/ directory at all.
C8_ReleaseIsBetaLessMarker ==
    /\ (pc = "menu" /\ trail.last = "promote") =>
          Sub(fs, ReleaseDir) = RmTree(Sub(fs, BetaDir), <<"lastVersion.txt">>)
    /\ trail.promoted => ~Exists(fs, <<"release", "lastVersion.txt">>)
    /\ trail.raisedIn = "copy_beta_to_release" => ~Exists(fs, BetaDir)

\* copy_beta_to_release has returned on a beta tree that holds the marker and
\* a built output, and an entry of the release tree it found is gone
C8_Witness ==
    /\ pc = "menu"
    /\ trail.last = "promote"
    /\ Exists(fs, LAST_VERSION_FILE)
    /\ \E p \in DOMAIN fs : IsPrefix(BetaDir, p) /\ Len(p) >= 5 /\ IsFile(fs, p)
    /\ ~Exists(fs, <<"release", "old">>)
    /\ Exists(fs, <<"release", "forge", "1.20.1", "giga">>)

====
